---- MODULE Spec2Model ----
(***************************************************************************)
(* CraftsFusion storefront backend (src/main.py): the product model, the   *)
(* four HTTP handlers and the document store they talk to.                 *)
(*                                                                         *)
(* Python values are tagged records: None is [none |-> TRUE], a string is  *)
(* [str |-> s], a number is [num |-> n], an ObjectId is [oid |-> x].       *)
(* Text that is searched (titles, the q parameter) is a sequence of        *)
(* one-character strings; text that is only compared or copied             *)
(* (categories, descriptions, tags, ...) is a TLA+ string.                 *)
(* A stored document is a function from the names of the fields it has to  *)
(* their values; a field the document lacks is not in its DOMAIN.          *)
(* The store returns documents in no guaranteed order, so the catalog and  *)
(* every query result are sets of documents (their _id keeps them apart).  *)
(***************************************************************************)
EXTENDS Integers, Sequences, FiniteSets, TLC

VARIABLES
    db,        \* the process-wide store handle: "None" or "present"
    catalog,   \* the documents of the "product" collection
    env,       \* the environment variables read by test_database
    others,    \* how many collections besides "product" the store holds
    calls,     \* one record per request slot: handler, position, response
    doc,       \* input of a stand-alone from_mongo application
    view       \* its result

vars == <<db, catalog, env, others, calls, doc, view>>

------------------------------------------------------------------------------
(* Bounds of the model *)

\* request slots: at most this many requests are issued in one behaviour
MaxCalls == 2

\* collections the store may hold besides "product"
MaxOthers == 11

\* longest text of an exception raised by list_collection_names
MaxErrLen == 51

------------------------------------------------------------------------------
(* Program constants *)

\* collections[:10]
CollectionsShown == 10

\* str(e)[:50]
ErrShown == 50

\* HTTPException(status_code=500, ...); FastAPI answers an uncaught exception
\* with the same status
StatusError == 500

\* the status of a response whose handler returned
StatusOk == 200

------------------------------------------------------------------------------
(* Python values *)

None == [none |-> TRUE]

PyStr(s) == [str |-> s]

PyNum(n) == [num |-> n]

ObjectId(x) == [oid |-> x]

IsNone(v) == "none" \in DOMAIN v

IsStr(v) == "str" \in DOMAIN v

IsNum(v) == "num" \in DOMAIN v

\* an exception leaving the function that was called
Raise(kind) == [error |-> kind]

Raised(v) == "error" \in DOMAIN v

\* dict.get(key, default)
Get(d, key, default) == IF key \in DOMAIN d THEN d[key] ELSE default

\* str(x) of an _id: the display form of an ObjectId, "None" for None
Str(v) == IF IsNone(v) THEN PyStr("None") ELSE PyStr(ToString(v.oid))

\* float(x): a number converts, None raises TypeError
Float(v) == IF IsNum(v) THEN v ELSE Raise("TypeError")

\* the first n elements of s: s[:n]
Take(s, n) == SubSeq(s, 1, IF Len(s) < n THEN Len(s) ELSE n)

------------------------------------------------------------------------------
(* Product model *)

\* pydantic: a field declared str
ValidStr(v) == IsStr(v)

\* pydantic: a field declared Optional[str] = None
ValidOptStr(v) == IsStr(v) \/ IsNone(v)

\* ProductOut(...): the keyword arguments are validated against the fields
ProductOut(kw) ==
    IF Raised(kw.price) THEN kw.price
    ELSE IF /\ ValidStr(kw.id)
            /\ ValidStr(kw.title)
            /\ ValidOptStr(kw.description)
            /\ IsNum(kw.price)
            /\ ValidStr(kw.category)
            /\ ValidOptStr(kw.image)
            /\ ValidOptStr(kw.tag)
            /\ ValidOptStr(kw.color)
         THEN kw
         ELSE Raise("ValidationError")

\* a from_mongo that reads the title without a default
from_mongo_no_defaults(d) ==
    ProductOut([id          |-> Str(Get(d, "_id", None)),
                title       |-> Get(d, "title", None),
                description |-> Get(d, "description", None),
                price       |-> Float(Get(d, "price", None)),
                category    |-> Get(d, "category", PyStr("")),
                image       |-> Get(d, "image", None),
                tag         |-> Get(d, "tag", None),
                color       |-> Get(d, "color", None)])

\* ProductOut.from_mongo
from_mongo(d) ==
    ProductOut([id          |-> Str(Get(d, "_id", None)),
                title       |-> Get(d, "title", PyStr(<<>>)),
                description |-> Get(d, "description", None),
                price       |-> Float(Get(d, "price", PyNum(0))),
                category    |-> Get(d, "category", PyStr("")),
                image       |-> Get(d, "image", None),
                tag         |-> Get(d, "tag", None),
                color       |-> Get(d, "color", None)])

\* [ProductOut.from_mongo(d) for d in docs]: the first failing conversion
\* leaves the comprehension; a list that was built is [list |-> its elements]
MapFromMongo(docs) ==
    IF \E d \in docs : Raised(from_mongo(d))
    THEN Raise("ValidationError")
    ELSE [list |-> {from_mongo(d) : d \in docs}]

\* ProductCreate(...): the fields of one sample, all given
ProductCreate(title, description, price, category, image, tag, color) ==
    [title       |-> PyStr(title),
     description |-> PyStr(description),
     price       |-> PyNum(price),
     category    |-> PyStr(category),
     image       |-> PyStr(image),
     tag         |-> PyStr(tag),
     color       |-> PyStr(color)]

\* seed_data
seed_data ==
    << ProductCreate(
         <<"M", "o", "o", "n", "l", "i", "t", " ", "P", "e", "t", "a", "l",
           " ", "G", "o", "w", "n">>,
         "Flowing chiffon gown with iridescent petals and a subtle stardust shimmer.",
         189, "Dresses", "https://images.unsplash.com/photo-1520975922284-7bcd429ebfd5?q=80&w=1600&auto=format&fit=crop", "New", "#FDE3E3"),
       ProductCreate(
         <<"S", "y", "l", "v", "a", "n", " ", "W", "h", "i", "s", "p", "e",
           "r", " ", "B", "l", "o", "u", "s", "e">>,
         "Sheer organza blouse with embroidered leaves and pearl buttons.",
         79, "Tops", "https://images.unsplash.com/photo-1520975940279-d6cc6e4be0c3?q=80&w=1600&auto=format&fit=crop", "Trending", "#E8F5E9"),
       ProductCreate(
         <<"A", "u", "r", "o", "r", "a", " ", "V", "e", "i", "l", " ", "S",
           "k", "i", "r", "t">>,
         "Layered tulle midi skirt that shifts color like the northern lights.",
         98, "Bottoms", "https://images.unsplash.com/photo-1503342330407-5a4cd4fd63d6?q=80&w=1600&auto=format&fit=crop", "Bestseller", "#EDE7F6"),
       ProductCreate(
         <<"G", "l", "i", "m", "m", "e", "r", "l", "e", "a", "f", " ", "H",
           "e", "a", "d", "b", "a", "n", "d">>,
         "Delicate headband with glass leaves and starlit crystals.",
         32, "Accessories", "https://images.unsplash.com/photo-1522335789203-aabd1fc54bc9?q=80&w=1600&auto=format&fit=crop", "Limited", "#FFF8E1"),
       ProductCreate(
         <<"S", "t", "a", "r", "d", "r", "o", "p", " ", "P", "e", "r", "f",
           "u", "m", "e", " ", "S", "a", "t", "c", "h", "e", "l">>,
         "Velvet micro bag adorned with a vintage atomizer charm.",
         56, "Bags", "https://images.unsplash.com/photo-1555529669-e69e7aa0ba9a?q=80&w=1600&auto=format&fit=crop", "Editor's pick", "#FFE0B2"),
       ProductCreate(
         <<"P", "e", "t", "a", "l", " ", "M", "i", "s", "t", " ", "K", "i",
           "m", "o", "n", "o">>,
         "Lightweight satin kimono with hand-painted florals and golden thread.",
         129, "Outerwear", "https://images.unsplash.com/photo-1515378791036-0648a3ef77b2?q=80&w=1600&auto=format&fit=crop", "New", "#FFF3E0") >>

------------------------------------------------------------------------------
(* Document store: the database module and the collection behind it *)

\* the identifier the store gives the k-th document created by request c;
\* documents that exist before any request carry request number 0
NewId(c, k) == <<c, k>>

\* create_document(collection, data): the record gains a new _id and joins
\* the collection
create_document(coll, data, id) == coll \cup {data @@ ("_id" :> ObjectId(id))}

Lower(ch) ==
    LET up == "A" :> "a" @@ "B" :> "b" @@ "C" :> "c" @@ "D" :> "d" @@ "E" :> "e"
           @@ "F" :> "f" @@ "G" :> "g" @@ "H" :> "h" @@ "I" :> "i" @@ "J" :> "j"
           @@ "K" :> "k" @@ "L" :> "l" @@ "M" :> "m" @@ "N" :> "n" @@ "O" :> "o"
           @@ "P" :> "p" @@ "Q" :> "q" @@ "R" :> "r" @@ "S" :> "s" @@ "T" :> "t"
           @@ "U" :> "u" @@ "V" :> "v" @@ "W" :> "w" @@ "X" :> "x" @@ "Y" :> "y"
           @@ "Z" :> "z"
    IN  IF ch \in DOMAIN up THEN up[ch] ELSE ch

\* a pattern the store can compile: over the characters used here the only
\* way to be malformed is a group that is opened and never closed
RegexValid(pattern) == \A k \in 1..Len(pattern) : pattern[k] # "("

\* one pattern character against one text character, option i: "." matches
\* any character, every other character matches itself in either case
RegexCharMatch(pc, tc) == pc = "." \/ Lower(pc) = Lower(tc)

\* {"$regex": pattern, "$options": "i"}: an unanchored search
RegexSearch(pattern, text) ==
    \E off \in 0..(Len(text) - Len(pattern)) :
        \A k \in 1..Len(pattern) : RegexCharMatch(pattern[k], text[off + k])

\* a document against a filter: every key of the filter must match
Matches(d, filt) ==
    /\ "category" \in DOMAIN filt =>
           /\ "category" \in DOMAIN d
           /\ d["category"] = PyStr(filt["category"])
    /\ "title" \in DOMAIN filt =>
           /\ "title" \in DOMAIN d
           /\ IsStr(d["title"])
           /\ RegexSearch(filt["title"].regex, d["title"].str)

\* get_documents(collection, filter): the documents that match; a pattern
\* the store cannot compile makes the query raise
get_documents(coll, filt) ==
    IF "title" \in DOMAIN filt /\ ~RegexValid(filt["title"].regex)
    THEN Raise("OperationFailure")
    ELSE [list |-> {d \in coll : Matches(d, filt)}]

\* an existence probe that reads a collection nobody writes
find_limit_1_other_collection(coll) == {}

\* db["product"].find({}).limit(n): some n documents, all of them when the
\* collection holds fewer
find_limit_1(coll) == IF coll = {} THEN {} ELSE {CHOOSE d \in coll : TRUE}

\* db.list_collection_names(): "product" exists once it holds a document
list_collection_names(coll, n) ==
    [names |-> (IF coll = {} THEN <<>> ELSE <<"product">>)
               \o [k \in 1..n |-> ToString(k)]]

------------------------------------------------------------------------------
(* HTTP service: what each handler answers *)

Response(status, detail, body) ==
    [status |-> status, detail |-> detail, body |-> body]

\* raise HTTPException(status_code=500, detail="Database not available")
Unavailable == Response(StatusError, "Database not available", None)

\* an exception no handler code catches: FastAPI answers 500
Uncaught(e) == Response(StatusError, "Internal Server Error", None)

\* return value: FastAPI answers 200 with the value as body (a list is
\* [list |-> its elements], a dict is a record; a response without a
\* returned value has body None)
Returned(body) == Response(StatusOk, "", body)

\* the tail of list_products and of both branches of seed_products:
\* return [ProductOut.from_mongo(d) for d in docs]
ReturnDocs(docs) ==
    IF Raised(docs) THEN Uncaught(docs)
    ELSE IF Raised(MapFromMongo(docs.list)) THEN Uncaught(MapFromMongo(docs.list))
    ELSE Returned(MapFromMongo(docs.list))

\* read_root
read_root == Returned([message |-> "CraftsFusion Backend Running"])

\* list_products: the filter built from the query parameters
\* (a parameter is used when it is truthy: given and not the empty string)
BuildFilter(category, q) ==
    LET filt0 == [k \in {} |-> None]
        filt1 == IF IsStr(category) /\ category.str # ""
                 THEN filt0 @@ ("category" :> category.str)
                 ELSE filt0
    IN  IF IsStr(q) /\ q.str # <<>>
        THEN filt1 @@ ("title" :> [regex |-> q.str, options |-> "i"])
        ELSE filt1

\* list_products
list_products(category, q) ==
    IF db = "None" THEN Unavailable
    ELSE ReturnDocs(get_documents(catalog, BuildFilter(category, q)))

\* the empty filter of get_documents("product")
NoFilter == [k \in {} |-> None]

\* a test_database without the inner try and without the slice
test_database_unguarded(probe) ==
    LET truthy(v) == IsStr(v) /\ v.str # ""
        url  == IF truthy(env.DATABASE_URL) THEN "Set" ELSE "Not Set"
        name == IF truthy(env.DATABASE_NAME) THEN "Set" ELSE "Not Set"
    IN  IF db = "None"
        THEN Returned([backend           |-> "Running",
                       database          |-> [text |-> "Available but not initialized",
                                              err  |-> <<>>],
                       database_url      |-> url,
                       database_name     |-> name,
                       connection_status |-> "Not Connected",
                       collections       |-> <<>>])
        ELSE IF Raised(probe)
        THEN Returned([backend           |-> "Running",
                       database          |-> [text |-> "Error", err |-> Take(probe.message, ErrShown)],
                       database_url      |-> url,
                       database_name     |-> name,
                       connection_status |-> "Connected",
                       collections       |-> <<>>])
        ELSE Returned([backend           |-> "Running",
                       database          |-> [text |-> "Connected & Working", err |-> <<>>],
                       database_url      |-> url,
                       database_name     |-> name,
                       connection_status |-> "Connected",
                       collections       |-> probe.names])

\* test_database; probe is what db.list_collection_names() does when it is
\* called: it returns the names, or raises with a message. The status
\* strings are written without their leading symbol; database is the status
\* text and, apart, the part of the error message appended to it.
test_database(probe) ==
    LET r0 == [backend           |-> "Running",
               database          |-> [text |-> "Not Available", err |-> <<>>],
               database_url      |-> "None",
               database_name     |-> "None",
               connection_status |-> "Not Connected",
               collections       |-> <<>>]
        r1 == IF db # "None"
              THEN LET a == [r0 EXCEPT !.database = [text |-> "Available", err |-> <<>>],
                                       !.database_url = "Configured",
                                       !.database_name = "Connected",
                                       !.connection_status = "Connected"]
                   IN  IF Raised(probe)
                       THEN [a EXCEPT !.database =
                                [text |-> "Connected but Error",
                                 err  |-> Take(probe.message, ErrShown)]]
                       ELSE [a EXCEPT !.collections = Take(probe.names, CollectionsShown),
                                      !.database =
                                          [text |-> "Connected & Working", err |-> <<>>]]
              ELSE [r0 EXCEPT !.database =
                       [text |-> "Available but not initialized", err |-> <<>>]]
        truthy(v) == IsStr(v) /\ v.str # ""
        r2 == [r1 EXCEPT !.database_url =
                             IF truthy(env.DATABASE_URL) THEN "Set" ELSE "Not Set",
                         !.database_name =
                             IF truthy(env.DATABASE_NAME) THEN "Set" ELSE "Not Set"]
    IN  Returned(r2)

------------------------------------------------------------------------------
(* Requests *)

Calls == 1..MaxCalls

\* op, category, q: the handler and its query parameters; pc: where the
\* handler stands; i: how many turns of the seed loop are behind it;
\* existing: whether the existence probe found a document; status, detail,
\* body: the response. pre (the catalog at the handler's first store call,
\* {} when it makes none) and storeOps (the store calls it has made) record
\* history.
Idle ==
    [op |-> "none", pc |-> "idle", category |-> None, q |-> None,
     i |-> 0, existing |-> FALSE, pre |-> {}, storeOps |-> 0,
     status |-> 0, detail |-> "", body |-> None]

\* requests are numbered in the order they reach their handler
Arrives(c) ==
    /\ calls[c].pc = "idle"
    /\ \A d \in Calls : d < c => calls[d].pc # "idle"

InFlight(c) == calls[c].pc \notin {"idle", "done"}

Finish(c, op, r) ==
    calls' = [calls EXCEPT ![c].op = op, ![c].pc = "done",
                           ![c].status = r.status, ![c].detail = r.detail,
                           ![c].body = r.body]

\* the values the query parameters take
Categories ==
    {None, PyStr(""), PyStr("Dresses"), PyStr("Hats")}

Queries ==
    {None, PyStr(<<>>), PyStr(<<"v", "e", "i", "l">>), PyStr(<<".">>),
     PyStr(<<"(">>)}

\* GET /
ReadRoot(c) ==
    /\ Arrives(c)
    /\ Finish(c, "read_root", read_root)
    /\ UNCHANGED <<db, catalog, env, others, doc, view>>

\* GET /api/products
ListProducts(c) ==
    /\ Arrives(c)
    /\ \E category \in Categories, q \in Queries :
           LET r == list_products(category, q)
           IN  calls' = [calls EXCEPT
                   ![c] = [Idle EXCEPT
                       !.op = "list_products", !.pc = "done",
                       !.category = category, !.q = q,
                       !.pre = IF db = "None" THEN {} ELSE catalog,
                       !.storeOps = IF db = "None" THEN 0 ELSE 1,
                       !.status = r.status, !.detail = r.detail, !.body = r.body]]
    /\ UNCHANGED <<db, catalog, env, others, doc, view>>

\* a loop body that skips a sample whose title the catalog already holds
insert_item_unique_title(coll, item, id) ==
    IF \E d \in coll : "title" \in DOMAIN d /\ d["title"] = item.title
    THEN coll
    ELSE create_document(coll, item, id)

\* a loop body that overwrites the collection with the new document
insert_item_replace(coll, item, id) == create_document({}, item, id)

\* _id = create_document("product", item) in the loop over seed_data
insert_item(coll, item, id) == create_document(coll, item, id)

\* POST /api/products/seed, up to the existence probe
SeedProbe(c) ==
    /\ Arrives(c)
    /\ IF db = "None"
       THEN Finish(c, "seed_products", Unavailable)
       ELSE calls' = [calls EXCEPT
                ![c].op = "seed_products",
                ![c].pre = catalog,
                ![c].storeOps = 1,
                ![c].existing = (find_limit_1(catalog) # {}),
                ![c].pc = IF find_limit_1(catalog) # {} THEN "return" ELSE "insert"]
    /\ UNCHANGED <<db, catalog, env, others, doc, view>>

\* one turn of the loop over seed_data: the store accepts the document
SeedInsert(c) ==
    /\ calls[c].pc = "insert"
    /\ catalog' = insert_item(catalog, seed_data[calls[c].i + 1],
                              NewId(c, calls[c].i + 1))
    /\ calls' = [calls EXCEPT
           ![c].i = @ + 1,
           ![c].storeOps = @ + 1,
           ![c].pc = IF calls[c].i + 1 = Len(seed_data) THEN "return" ELSE "insert"]
    /\ UNCHANGED <<db, env, others, doc, view>>

\* a failing turn that removes what the earlier turns of this request inserted
SeedInsertFailsRollback(c) ==
    /\ calls[c].pc = "insert"
    /\ catalog' = {d \in catalog :
                       \A k \in 1..calls[c].i : d["_id"] # ObjectId(NewId(c, k))}
    /\ calls' = [calls EXCEPT
           ![c].pc = "done", ![c].storeOps = @ + 1,
           ![c].status = StatusError, ![c].detail = "Internal Server Error"]
    /\ UNCHANGED <<db, env, others, doc, view>>

\* one turn of the loop: create_document raises, nothing catches it
SeedInsertFails(c) ==
    /\ calls[c].pc = "insert"
    /\ calls' = [calls EXCEPT
           ![c].pc = "done", ![c].storeOps = @ + 1,
           ![c].status = Uncaught(Raise("StoreError")).status,
           ![c].detail = Uncaught(Raise("StoreError")).detail]
    /\ UNCHANGED <<db, catalog, env, others, doc, view>>

\* docs = get_documents("product"); return the mapped list
SeedReturn(c) ==
    /\ calls[c].pc = "return"
    /\ LET r == ReturnDocs(get_documents(catalog, NoFilter))
       IN  calls' = [calls EXCEPT
               ![c].pc = "done", ![c].storeOps = @ + 1,
               ![c].status = r.status, ![c].detail = r.detail, ![c].body = r.body]
    /\ UNCHANGED <<db, catalog, env, others, doc, view>>

\* the lengths of the message of an exception raised by the probe
ErrLens == {0, 1, ErrShown, MaxErrLen}

\* GET /test
TestDatabase(c) ==
    /\ Arrives(c)
    /\ \E probe \in {list_collection_names(catalog, others)}
                    \cup {[error |-> "Exception", message |-> [k \in 1..n |-> "e"]] :
                             n \in ErrLens} :
           Finish(c, "test_database", test_database(probe))
    /\ UNCHANGED <<db, catalog, env, others, doc, view>>

------------------------------------------------------------------------------
(* The service *)

\* a document created outside this service: no description, image, tag, color
Foreign1 ==
    ("_id" :> ObjectId(NewId(0, 1)))
    @@ [title |-> PyStr(<<"V", "e", "i", "l", "e", "d", " ", "H", "a", "t">>),
        price |-> PyNum(10), category |-> PyStr("Hats")]

\* a document created outside this service with nothing but a description
Foreign2 ==
    ("_id" :> ObjectId(NewId(0, 2))) @@ [description |-> None]

\* the catalog at startup: empty, or holding documents created elsewhere
InitCatalogs == {{}, {Foreign1}, {Foreign1, Foreign2}}

\* an environment variable: unset, set to nothing, set
EnvValues == {None, PyStr(""), PyStr("mongodb://host")}

NoDoc == [none |-> TRUE]

Init ==
    /\ db \in {"None", "present"}
    /\ catalog \in (IF db = "None" THEN {{}} ELSE InitCatalogs)
    /\ env = [DATABASE_URL |-> PyStr("mongodb://host"), DATABASE_NAME |-> PyStr("shop")]
    /\ others = CollectionsShown
    /\ calls = [c \in Calls |-> Idle]
    /\ doc = NoDoc
    /\ view = NoDoc

Next ==
    \E c \in Calls :
        \/ ReadRoot(c)
        \/ ListProducts(c)
        \/ SeedProbe(c)
        \/ SeedInsert(c)
        \/ SeedInsertFails(c)
        \/ SeedReturn(c)
        \/ TestDatabase(c)

Spec == Init /\ [][Next]_vars

------------------------------------------------------------------------------
(* The service with one request at a time *)

\* no handler is between two of its store calls
Sequential == \A d \in Calls : ~InFlight(d)

NextSeq ==
    \E c \in Calls :
        \/ Sequential /\ ReadRoot(c)
        \/ Sequential /\ ListProducts(c)
        \/ Sequential /\ SeedProbe(c)
        \/ SeedInsert(c)
        \/ SeedInsertFails(c)
        \/ SeedReturn(c)
        \/ Sequential /\ TestDatabase(c)

SpecSeq == Init /\ [][NextSeq]_vars

------------------------------------------------------------------------------
(* Diagnostics over every store state *)

InitDiag ==
    /\ db \in {"None", "present"}
    /\ catalog \in (IF db = "None" THEN {{}} ELSE InitCatalogs)
    /\ env \in [DATABASE_URL : EnvValues, DATABASE_NAME : EnvValues]
    /\ others \in 0..MaxOthers
    /\ calls = [c \in Calls |-> Idle]
    /\ doc = NoDoc
    /\ view = NoDoc

NextDiag == \E c \in Calls : TestDatabase(c)

SpecDiag == InitDiag /\ [][NextDiag]_vars

------------------------------------------------------------------------------
(* from_mongo over stored records with any of their fields missing *)

Missing == [missing |-> TRUE]

\* which fields a record has, and their values: the required fields hold
\* values of their declared type, an optional field may hold None
DocChoices ==
    [oid         : {Missing, ObjectId(NewId(0, 1))},
     title       : {Missing, PyStr(<<"V", "e", "i", "l">>)},
     description : {Missing, None, PyStr("text")},
     price       : {Missing, PyNum(0), PyNum(189)},
     category    : {Missing, PyStr(""), PyStr("Hats")},
     image       : {Missing, None, PyStr("https://img")},
     tag         : {Missing, None, PyStr("New")},
     color       : {Missing, None, PyStr("#FFF3E0")}]

FieldNames ==
    {"_id", "title", "description", "price", "category", "image", "tag", "color"}

DocOf(ch) ==
    LET key(f) == IF f = "_id" THEN "oid" ELSE f
    IN  [f \in {g \in FieldNames : ch[key(g)] # Missing} |-> ch[key(f)]]

InitMongo ==
    /\ db = "present"
    /\ catalog = {}
    /\ env = [DATABASE_URL |-> None, DATABASE_NAME |-> None]
    /\ others = 0
    /\ calls = [c \in Calls |-> Idle]
    /\ doc \in {DocOf(ch) : ch \in DocChoices}
    /\ view = NoDoc

FromMongo ==
    /\ view = NoDoc
    /\ view' = from_mongo(doc)
    /\ UNCHANGED <<db, catalog, env, others, calls, doc>>

NextMongo == FromMongo

SpecMongo == InitMongo /\ [][NextMongo]_vars

------------------------------------------------------------------------------
(* Properties *)

Range(f) == {f[k] : k \in DOMAIN f}

\* a stored document without the identifier the store gave it
Strip(d) == [f \in DOMAIN d \ {"_id"} |-> d[f]]

\* the views of a set of documents, as the API returns them
Views(docs) == MapFromMongo(docs)

\* the products a response returned
Products(c) == IF "list" \in DOMAIN calls[c].body THEN calls[c].body.list ELSE {}

\* the first k samples as request c stored them
SampleDocs(c, k) ==
    {seed_data[j] @@ ("_id" :> ObjectId(NewId(c, j))) : j \in 1..k}

SeedCall(c) == calls[c].op = "seed_products"

ListCall(c) == calls[c].op = "list_products"

Done(c) == calls[c].pc = "done"

\* text contains q as a literal substring, letter case ignored
ContainsCI(text, q) ==
    \E off \in 0..(Len(text) - Len(q)) :
        \A k \in 1..Len(q) : Lower(text[off + k]) = Lower(q[k])

\* C1: with the store available, when a seed call that found the catalog
\* empty has returned and a second seed call made after it has returned too,
\* the catalog holds exactly the 6 samples, once each, and the second call
\* returned the same 6 products as the first.
C1_SeedTwiceSameSix ==
    \A c, e \in Calls :
        (/\ c < e /\ SeedCall(c) /\ SeedCall(e) /\ Done(c) /\ Done(e)
         /\ db = "present" /\ calls[c].pre = {} /\ calls[c].status = StatusOk)
        => /\ calls[e].status = StatusOk
           /\ calls[e].body = calls[c].body
           /\ Cardinality(Products(e)) = 6
           /\ Cardinality(catalog) = 6
           /\ {Strip(d) : d \in catalog} = Range(seed_data)
           /\ calls[e].body = Views(catalog)

C1_Witness ==
    \E c, e \in Calls :
        /\ c < e /\ SeedCall(c) /\ SeedCall(e) /\ Done(c) /\ Done(e)
        /\ calls[c].pre = {} /\ calls[c].status = StatusOk /\ calls[c].i = 6
        /\ calls[e].status = StatusOk /\ Cardinality(Products(e)) = 6

\* C2: a seed call that finds at least one product in the catalog (whatever
\* product it is) inserts nothing: the catalog stays what it was before the
\* call, and the call returns 200 with the whole pre-call catalog.
C2_SeedNonEmptyNoOp ==
    \A c \in Calls :
        (SeedCall(c) /\ calls[c].pre # {})
        => /\ calls[c].i = 0
           /\ catalog = calls[c].pre
           /\ Done(c) => /\ calls[c].status = StatusOk
                         /\ calls[c].body = Views(calls[c].pre)

C2_Witness ==
    \E c \in Calls :
        /\ SeedCall(c) /\ Done(c)
        /\ calls[c].pre = {Foreign1, Foreign2}
        /\ Cardinality(Products(c)) = 2

\* C3: the existence probe and the inserts of a seed call are not atomic:
\* every turn of every seed loop adds its own copy of its sample, whatever
\* the other requests have inserted since the probe, so each sample is in
\* the catalog once for every seed call whose loop has passed it; two calls
\* that both found the catalog empty leave every sample twice, 12 products.
C3_SeedRaceDuplicates ==
    /\ \A k \in 1..Len(seed_data) :
           Cardinality({d \in catalog : Strip(d) = seed_data[k]})
               = Cardinality({c \in Calls : calls[c].i >= k})
    /\ \A c \in Calls : calls[c].i > 0 => SeedCall(c) /\ calls[c].pre = {}

C3_Witness ==
    \E c, e \in Calls :
        /\ c # e /\ SeedCall(c) /\ SeedCall(e) /\ Done(c) /\ Done(e)
        /\ calls[c].pre = {} /\ calls[e].pre = {}
        /\ ~calls[c].existing /\ ~calls[e].existing
        /\ calls[c].i = 6 /\ calls[e].i = 6
        /\ Cardinality(catalog) = 12
        /\ \A k \in 1..6 : Cardinality({d \in catalog : Strip(d) = seed_data[k]}) = 2

\* C4: with the store handle absent, list and seed answer 500 "Database not
\* available" without a store call; with the store handle present, list and
\* seed never answer anything but 200.
C4_OnlyUnavailablePropagates ==
    \A c \in Calls :
        ((SeedCall(c) \/ ListCall(c)) /\ Done(c))
        => IF db = "None"
           THEN /\ calls[c].status = StatusError
                /\ calls[c].detail = "Database not available"
                /\ calls[c].storeOps = 0
           ELSE calls[c].status = StatusOk

\* C5: whenever list products is called with a category parameter, the empty
\* string included, every product it returns has exactly that category.
C5_CategoryExact ==
    \A c \in Calls :
        (ListCall(c) /\ Done(c) /\ IsStr(calls[c].category))
        => \A v \in Products(c) : v.category = calls[c].category

\* C6: whenever list products is called with a q parameter, every product
\* it returns has q in its title as a literal substring, letter case
\* ignored, and every stored product that has (and matches the category
\* parameter, if given) is returned.
C6_TitleContainsLiteral ==
    \A c \in Calls :
        (ListCall(c) /\ Done(c) /\ db = "present" /\ IsStr(calls[c].q))
        => /\ \A v \in Products(c) : ContainsCI(v.title.str, calls[c].q.str)
           /\ \A d \in calls[c].pre :
                  (/\ ContainsCI(from_mongo(d).title.str, calls[c].q.str)
                   /\ IsStr(calls[c].category)
                          => from_mongo(d).category = calls[c].category)
                  => from_mongo(d) \in Products(c)

\* C7: the diagnostics call answers 200 in every store state. With the
\* handle absent it reports that; with the handle present it reports either
\* the first 10 collection names at most, or, when listing them raised, the
\* response it had built before the probe with only the database string
\* changed (to the first 50 characters of the error at most).
C7_DiagnosticsNeverFails ==
    \A c \in Calls :
        (calls[c].op = "test_database" /\ Done(c))
        => LET b == calls[c].body
               set(v) == IsStr(v) /\ v.str # ""
               names == list_collection_names(catalog, others).names
           IN  /\ calls[c].status = StatusOk
               /\ b.backend = "Running"
               /\ Len(b.collections) <= 10
               /\ b.database_url = (IF set(env.DATABASE_URL) THEN "Set" ELSE "Not Set")
               /\ b.database_name = (IF set(env.DATABASE_NAME) THEN "Set" ELSE "Not Set")
               /\ IF db = "None"
                  THEN /\ b.database.text = "Available but not initialized"
                       /\ b.connection_status = "Not Connected"
                       /\ b.collections = <<>>
                  ELSE /\ b.connection_status = "Connected"
                       /\ \/ /\ b.database.text = "Connected & Working"
                             /\ b.collections
                                    = [k \in 1..(IF Len(names) < 10 THEN Len(names) ELSE 10)
                                          |-> names[k]]
                          \/ /\ b.database.text = "Connected but Error"
                             /\ Len(b.database.err) <= 50
                             /\ b.collections = <<>>

C7_Witness ==
    \E c, e \in Calls :
        /\ calls[c].op = "test_database" /\ Done(c)
        /\ calls[e].op = "test_database" /\ Done(e)
        /\ calls[c].body.database.text = "Connected but Error"
        /\ Len(calls[c].body.database.err) = 50
        /\ calls[e].body.database.text = "Connected & Working"
        /\ Len(calls[e].body.collections) = 10
        /\ Len(list_collection_names(catalog, others).names) > 10

\* C8: from_mongo never fails on a stored record, whichever of its fields
\* are missing: a missing title becomes the empty string, a missing price 0,
\* a missing description, image, tag or color null; a present field is
\* passed on.
C8_FromMongoTotal ==
    view # NoDoc
    => /\ ~Raised(view)
       /\ view.title = (IF "title" \in DOMAIN doc THEN doc["title"] ELSE PyStr(<<>>))
       /\ view.price = (IF "price" \in DOMAIN doc THEN doc["price"] ELSE PyNum(0))
       /\ \A f \in {"description", "image", "tag", "color"} :
              view[f] = (IF f \in DOMAIN doc THEN doc[f] ELSE None)

C8_Witness ==
    /\ view # NoDoc
    /\ DOMAIN doc = {"_id", "category"}
    /\ view.title = PyStr(<<>>)
    /\ view.price = PyNum(0)
    /\ view.description = None

\* a step leaves every product in the catalog as it is, and only a turn of
\* a seed loop adds one
CatalogOnlyGrowsBySeed ==
    /\ catalog \subseteq catalog'
    /\ catalog' # catalog
           => \E c \in Calls :
                  /\ SeedCall(c) /\ calls[c].pc = "insert"
                  /\ calls'[c].i = calls[c].i + 1

\* no two products of the catalog share an identifier
IdsDistinct ==
    \A x, y \in catalog :
        /\ "_id" \in DOMAIN x
        /\ x["_id"] = y["_id"] => x = y

\* C9: under any interleaving of the four handlers a product once in the
\* catalog stays in it with the same identifier and field values, products
\* are added by seed only, and the identifiers in the catalog are pairwise
\* distinct.
C9_ProductsNeverChange == [] IdsDistinct /\ [][CatalogOnlyGrowsBySeed]_vars

C9_Witness ==
    \E c, e \in Calls :
        /\ SeedCall(c) /\ Done(c) /\ calls[c].i = 6
        /\ ListCall(e) /\ Done(e) /\ calls[e].status = StatusOk
        /\ Products(e) # {} /\ calls[e].body # Views(catalog)
        /\ Cardinality(catalog) = 6

\* C10: seeding has no rollback: when an insert fails after k of the 6
\* samples (1 <= k < 6) went into an empty catalog, the catalog holds those
\* k products, and every seed call made later finds the catalog non-empty,
\* inserts nothing and returns those k products only.
C10_NoRollback ==
    \A c \in Calls :
        (/\ SeedCall(c) /\ Done(c) /\ calls[c].status = StatusError
         /\ calls[c].i >= 1 /\ calls[c].i < 6)
        => /\ catalog = SampleDocs(c, calls[c].i)
           /\ \A e \in Calls :
                  (e > c /\ SeedCall(e))
                  => /\ calls[e].existing
                     /\ calls[e].i = 0
                     /\ Done(e) => /\ calls[e].status = StatusOk
                                   /\ calls[e].body = Views(SampleDocs(c, calls[c].i))

C10_Witness ==
    \E c, e \in Calls :
        /\ c < e /\ SeedCall(c) /\ SeedCall(e) /\ Done(c) /\ Done(e)
        /\ calls[c].status = StatusError /\ calls[c].i = 3
        /\ calls[e].status = StatusOk /\ Cardinality(Products(e)) = 3

====
